---- MODULE Spec2Model ----
(***************************************************************************)
(* Control flow and matrix-dimension bookkeeping of Heis_FSA.cpp (main and *)
(* calculateMinEnviromentSize): the infinite-system growth loop, the       *)
(* finite-system half-sweeps, and the block store they exchange blocks     *)
(* through.  Matrices are represented by their dimension; the numerical    *)
(* content (energies, eigenvectors) is not modelled.                       *)
(***************************************************************************)
EXTENDS Integers, Sequences, FiniteSets, TLC

\* ---- bounds of the explored inputs ----
MaxM == 17
MaxSites == 10
MaxHalfSweeps == 2

VARIABLES
    m, numberOfSites, numberOfHalfSweeps,   \* the three inputs read from cin
    pc,                                     \* position in main
    st, sitesInSystem, truncflag, statesToKeepIFA,
    blkS, blkE,                             \* BLOCK: [size, HAB] (HAB by dimension)
    I2st, SzAB, SpAB, SmAB,                 \* square matrices, by dimension
    Habcd, Psi, rhoTSR,                     \* by dimension of one index
    TSR,                                    \* (d,2,d,2) tensor, by d
    OO,                                     \* truncation matrix [rows, cols]
    HAp,                                    \* rotated operators HAp, SzB, SpB, SmB
    minEnviromentSize, halfSweep,
    store,                                  \* persisted blocks, keyed by block size
    out                                     \* lines written to cout

vars == << m, numberOfSites, numberOfHalfSweeps, pc, st, sitesInSystem,
           truncflag, statesToKeepIFA, blkS, blkE, I2st, SzAB, SpAB, SmAB,
           Habcd, Psi, rhoTSR, TSR, OO, HAp, minEnviromentSize, halfSweep,
           store, out >>

RECURSIVE Pow2(_)
Pow2(n) == IF n <= 0 THEN 1 ELSE 2 * Pow2(n - 1)

Min(a, b) == IF a <= b THEN a ELSE b

\* ---- calculateMinEnviromentSize: for (result=3; result<numberOfSites; result++)
\*      if (powf(2.0,result) >= 2.0*m) break;  return result;
RECURSIVE MinEnvLoop(_, _, _)
MinEnvLoop(result, mm, sites) ==
    IF result < sites
    THEN IF Pow2(result) >= 2 * mm THEN result
         ELSE MinEnvLoop(result + 1, mm, sites)
    ELSE result

calculateMinEnviromentSizeStrict(mm, sites) == MinEnvLoop(4, mm, sites)
calculateMinEnviromentSizeOffByOne(mm, sites) == MinEnvLoop(3, mm, sites) + 1
calculateMinEnviromentSizeNoFactor(mm, sites) == MinEnvLoop(3, (mm + 1) \div 2, sites)
calculateMinEnviromentSize(mm, sites) == MinEnvLoop(3, mm, sites)

\* ---- printGroundStateEnergy: one line "<left> <right> <energy per site>"
EnergyLine(sitesInLeft, sitesInRight) ==
    [kind |-> "energy", left |-> sitesInLeft, right |-> sitesInRight]

EndOfISALine == [kind |-> "end", left |-> 0, right |-> 0]

\* ---- loop guards ----
GrowthGuardStrict(sites, total) == sites < total \div 2
GrowthGuard(sites, total) == sites <= total \div 2

HalfSweepGuardInclusive(hs, total) == hs <= total
HalfSweepGuard(hs, total) == hs < total

SweepGuardSwapped(sites, total, minEnv) == sites <= minEnv
SweepGuardStrict(sites, total, minEnv) == sites < total - minEnv
SweepGuard(sites, total, minEnv) == sites <= total - minEnv

\* ---- statesToKeepIFA= (2*statesToKeepIFA<=m)? 2*statesToKeepIFA : m;
NextStatesToKeepUncapped(keep, mm) == 2 * keep
NextStatesToKeep(keep, mm) == IF 2 * keep <= mm THEN 2 * keep ELSE mm

\* ---- dimension of the superblock working arrays: Habcd, Psi, rhoTSR
\*      are resized to 2*st per index
SuperblockDimUndersized(states) == states
SuperblockDim(states) == 2 * states

\* ---- dimension of the spin operators of the enlarged block: resize(2*st,2*st)
SpinOpDimAsIdentity(states) == 4 * states
SpinOpDim(states) == 2 * states

\* ---- if (truncflag == 1) { truncflag = 2; st = m; }
StatesAfterFirstTruncationKept(states, mm) == states
StatesAfterFirstTruncation(states, mm) == mm

\* ---- statesToKeep of the identity: 2*m when truncflag == 2, else 4*st
IdentityDimAlwaysGrowing(flag, states, mm) == 4 * states
IdentityDim(flag, states, mm) == IF flag = 2 THEN 2 * mm ELSE 4 * states

\* ---- line of a sweep step: system first on even half-sweeps, else swapped
SweepLineUnswapped(hs, sitesSys, sitesEnv) == EnergyLine(sitesSys, sitesEnv)
SweepLine(hs, sitesSys, sitesEnv) ==
    IF hs % 2 = 0 THEN EnergyLine(sitesSys, sitesEnv)
    ELSE EnergyLine(sitesEnv, sitesSys)

\* ---- block store (block.h is not part of the sources; modelled on the
\*      Block Store contract: store(block,size,..) / load(size,..)) ----
EmptyStore == [s \in {} |-> [size |-> 0, HAB |-> 0]]

Written(size) == size \in DOMAIN store

StoreWrite(blk, size) ==
    [s \in (DOMAIN store) \cup {size} |-> IF s = size THEN blk ELSE store[s]]

\* A block file left on disk by an earlier run of the program for the same
\* number of sites: its Hamiltonian has dimension min(2^size, 2m') for the m'
\* of that run.
StaleBlocks(size) ==
    { [size |-> size, HAB |-> Min(Pow2(size), 2 * mp)] : mp \in 2..MaxM }

\* Possible results of loading `size` into block blk: the stored block when one
\* was written in this run; otherwise the block is left as it was or a stale
\* file is picked up.
FSAread(blk, size) ==
    IF Written(size) THEN {store[size]}
    ELSE {blk} \cup StaleBlocks(size)

\* ---- inputs: m >= 2, even chain length >= 4, half-sweeps >= 0 ----
Init ==
    /\ m \in 2..MaxM
    /\ numberOfSites \in {n \in 4..MaxSites : n % 2 = 0}
    /\ numberOfHalfSweeps \in 0..MaxHalfSweeps
    /\ pc = "isa"
    /\ st = 2
    /\ sitesInSystem = 2
    /\ truncflag = 0
    /\ statesToKeepIFA = 2
    /\ blkS = [size |-> 0, HAB |-> 4]
    /\ blkE = [size |-> 0, HAB |-> 0]
    /\ I2st = 4
    /\ SzAB = 4 /\ SpAB = 4 /\ SmAB = 4
    /\ Habcd = 4 /\ Psi = 4 /\ rhoTSR = 4
    /\ TSR = 2
    /\ OO = [rows |-> m, cols |-> 4]
    /\ HAp = 0
    /\ minEnviromentSize = 0
    /\ halfSweep = 0
    /\ store = EmptyStore
    /\ out = << >>

\* ---- one iteration of the infinite-system while loop (lines 134-231) ----
GrowthStep ==
    /\ pc = "isa"
    /\ GrowthGuard(sitesInSystem, numberOfSites)
    /\ LET keep    == NextStatesToKeep(statesToKeepIFA, m)
           noTrunc == 2 * st <= m
           st1     == IF noTrunc THEN 2 * st ELSE st
           tf1     == IF ~noTrunc /\ truncflag \in {0, 3}
                      THEN truncflag + 1 ELSE truncflag
           tf2     == IF tf1 = 1 THEN 2 ELSE tf1
           st2     == IF tf1 = 1 THEN StatesAfterFirstTruncation(st1, m) ELSE st1
           tf3     == IF tf2 = 2 THEN 3 ELSE tf2
           statesToKeep == IdentityDim(tf2, st2, m)
           newBlk  == [size |-> sitesInSystem + 1, HAB |-> 2 * st2]
       IN  /\ out' = Append(out, EnergyLine(sitesInSystem, sitesInSystem))
           /\ statesToKeepIFA' = keep
           /\ OO' = [rows |-> keep, cols |-> rhoTSR]
           /\ HAp' = keep
           /\ TSR' = keep
           /\ st' = st2
           /\ truncflag' = tf3
           /\ IF tf2 < 3
              THEN /\ I2st' = statesToKeep
                   /\ SzAB' = SpinOpDim(st2)
                   /\ SpAB' = SpinOpDim(st2)
                   /\ SmAB' = SpinOpDim(st2)
                   /\ Habcd' = SuperblockDim(st2)
                   /\ Psi' = SuperblockDim(st2)
                   /\ rhoTSR' = SuperblockDim(st2)
              ELSE UNCHANGED << I2st, SzAB, SpAB, SmAB, Habcd, Psi, rhoTSR >>
           /\ sitesInSystem' = sitesInSystem + 1
           /\ blkS' = newBlk
           /\ store' = StoreWrite(newBlk, sitesInSystem + 1)
    /\ UNCHANGED << m, numberOfSites, numberOfHalfSweeps, pc, blkE,
                    minEnviromentSize, halfSweep >>

\* ---- loop exit, "End of the infinite system algorithm", lines 240-246 ----
GrowthEnd ==
    /\ pc = "isa"
    /\ ~GrowthGuard(sitesInSystem, numberOfSites)
    /\ out' = Append(out, EndOfISALine)
    /\ minEnviromentSize' = calculateMinEnviromentSize(m, numberOfSites)
    /\ sitesInSystem' = numberOfSites \div 2
    /\ blkS' \in FSAread(blkS, numberOfSites \div 2)
    /\ halfSweep' = 0
    /\ pc' = "for"
    /\ UNCHANGED << m, numberOfSites, numberOfHalfSweeps, st, truncflag,
                    statesToKeepIFA, blkE, I2st, SzAB, SpAB, SmAB, Habcd,
                    Psi, rhoTSR, TSR, OO, HAp, store >>

\* ---- for (...; halfSweep<numberOfHalfSweeps; ...) : condition, line 246 ----
ForEnter ==
    /\ pc = "for"
    /\ HalfSweepGuard(halfSweep, numberOfHalfSweeps)
    /\ pc' = "while"
    /\ UNCHANGED << m, numberOfSites, numberOfHalfSweeps, st, sitesInSystem,
                    truncflag, statesToKeepIFA, blkS, blkE, I2st, SzAB, SpAB,
                    SmAB, Habcd, Psi, rhoTSR, TSR, OO, HAp, minEnviromentSize,
                    halfSweep, store, out >>

ForExit ==
    /\ pc = "for"
    /\ ~HalfSweepGuard(halfSweep, numberOfHalfSweeps)
    /\ pc' = "done"
    /\ UNCHANGED << m, numberOfSites, numberOfHalfSweeps, st, sitesInSystem,
                    truncflag, statesToKeepIFA, blkS, blkE, I2st, SzAB, SpAB,
                    SmAB, Habcd, Psi, rhoTSR, TSR, OO, HAp, minEnviromentSize,
                    halfSweep, store, out >>

\* ---- one iteration of the inner sweep loop (lines 248-289) ----
SweepStep ==
    /\ pc = "while"
    /\ SweepGuard(sitesInSystem, numberOfSites, minEnviromentSize)
    /\ LET sitesInEnviroment == numberOfSites - sitesInSystem
           newBlk == [size |-> sitesInSystem + 1, HAB |-> blkS.HAB]
       IN  /\ blkE' \in FSAread(blkE, sitesInEnviroment)
           /\ out' = Append(out,
                       SweepLine(halfSweep, sitesInSystem, sitesInEnviroment))
           /\ OO' = [rows |-> m, cols |-> rhoTSR]
           /\ sitesInSystem' = sitesInSystem + 1
           /\ blkS' = newBlk
           /\ store' = StoreWrite(newBlk, sitesInSystem + 1)
    /\ UNCHANGED << m, numberOfSites, numberOfHalfSweeps, pc, st, truncflag,
                    statesToKeepIFA, I2st, SzAB, SpAB, SmAB, Habcd, Psi,
                    rhoTSR, TSR, HAp, minEnviromentSize, halfSweep >>

\* ---- inner loop exit, lines 291-292, halfSweep++ ----
HalfSweepEnd ==
    /\ pc = "while"
    /\ ~SweepGuard(sitesInSystem, numberOfSites, minEnviromentSize)
    /\ sitesInSystem' = minEnviromentSize
    /\ blkS' \in FSAread(blkS, minEnviromentSize)
    /\ halfSweep' = halfSweep + 1
    /\ pc' = "for"
    /\ UNCHANGED << m, numberOfSites, numberOfHalfSweeps, st, truncflag,
                    statesToKeepIFA, blkE, I2st, SzAB, SpAB, SmAB, Habcd,
                    Psi, rhoTSR, TSR, OO, HAp, minEnviromentSize, store, out >>

Next ==
    \/ GrowthStep
    \/ GrowthEnd
    \/ ForEnter
    \/ ForExit
    \/ SweepStep
    \/ HalfSweepEnd

Spec == Init /\ [][Next]_vars

\* main is a single sequential thread: whenever a statement is enabled the
\* program executes it.
FairSpec == Spec /\ WF_vars(Next)

\* ---- derived views of the inputs ----
HalfSites == numberOfSites \div 2

\* Some r with 3 <= r < L has 2^r >= 2m.
MinEnvExists == \E r \in 3..(numberOfSites - 1) : Pow2(r) >= 2 * m

\* ======================= claims =======================

\* C1: once the growth loop has ended, exactly L/2 - 1 growth steps were made,
\* one printed line each for block sizes 2, 3, ..., L/2, all before the
\* end-of-infinite-system line and before anything of the finite phase.
C1_GrowthStepCount ==
    pc # "isa" =>
        /\ Len(out) >= HalfSites
        /\ out[HalfSites] = EndOfISALine
        /\ \A k \in 1..(HalfSites - 1) : out[k] = EnergyLine(k + 1, k + 1)

C1_Witness ==
    /\ pc = "for" /\ halfSweep = 0
    /\ numberOfSites = 10
    /\ Len(out) = 5

\* C2: every load from the block store (initial read of size L/2, each
\* environment read of size L - sitesInSystem, each end-of-half-sweep read of
\* size minEnviromentSize) targets a size that was written earlier.
C2_LoadAfterStore ==
    [][ /\ (pc = "isa" /\ pc' = "for") => Written(HalfSites)
        /\ (pc = "while" /\ pc' = "while") => Written(numberOfSites - sitesInSystem)
        /\ (pc = "while" /\ pc' = "for") => Written(minEnviromentSize) ]_vars

\* C3: in every growth step and every sweep step the number of states asked
\* of truncateReducedDM (rows of OO) is at most the dimension of the reduced
\* density matrix (columns of OO).
C3_KeepWithinDim ==
    out # << >> => OO.rows <= OO.cols

C3_Witness ==
    /\ pc = "while" /\ halfSweep = 1
    /\ sitesInSystem > minEnviromentSize
    /\ m = 5
    /\ OO = [rows |-> 5, cols |-> 10]

\* C4 (as stated): the k-th growth step retains min(2^k, m) states.
C4_Original ==
    (pc = "isa" /\ sitesInSystem > 2) =>
        /\ statesToKeepIFA = Min(Pow2(sitesInSystem - 2), m)
        /\ OO.rows = statesToKeepIFA

\* C4 (amended): the k-th growth step retains min(2^(k+1), m) states, i.e.
\* the sequence is 4, 8, 16, ... capped at m.
C4_KeepSequence ==
    (pc = "isa" /\ sitesInSystem > 2) =>
        /\ statesToKeepIFA = Min(Pow2(sitesInSystem - 1), m)
        /\ OO.rows = statesToKeepIFA

C4_Witness ==
    /\ pc = "isa" /\ sitesInSystem = 4
    /\ m = 11
    /\ statesToKeepIFA = 8

\* C5: statesToKeepIFA never decreases, never exceeds m, and once equal to m
\* stays m.
C5_KeepMonotone ==
    [][ /\ statesToKeepIFA' >= statesToKeepIFA
        /\ statesToKeepIFA' <= m
        /\ (statesToKeepIFA = m => statesToKeepIFA' = m) ]_vars

C5_Witness ==
    /\ pc = "isa" /\ sitesInSystem = 5
    /\ m = 6
    /\ statesToKeepIFA = 6

\* C6 (as stated): the returned r has 2^r >= 2m, 2^(r-1) < 2m and 3 <= r < L.
C6_Original ==
    pc # "isa" =>
        /\ Pow2(minEnviromentSize) >= 2 * m
        /\ Pow2(minEnviromentSize - 1) < 2 * m
        /\ 3 <= minEnviromentSize
        /\ minEnviromentSize < numberOfSites

\* C6 (amended): 3 <= r <= L; when r < L then 2^r >= 2m and either r = 3 or
\* 2^(r-1) < 2m; when r = L then 2^(L-1) < 2m.
C6_MinEnvBounds ==
    pc # "isa" =>
        /\ 3 <= minEnviromentSize
        /\ minEnviromentSize <= numberOfSites
        /\ minEnviromentSize < numberOfSites =>
              /\ Pow2(minEnviromentSize) >= 2 * m
              /\ minEnviromentSize = 3 \/ Pow2(minEnviromentSize - 1) < 2 * m
        /\ minEnviromentSize = numberOfSites =>
              Pow2(numberOfSites - 1) < 2 * m

C6_Witness ==
    /\ pc = "for"
    /\ m = 9 /\ numberOfSites = 10
    /\ minEnviromentSize = 5

\* C7: when some r with 3 <= r < L and 2^r >= 2m exists,
\* calculateMinEnviromentSize returns the smallest such r.
C7_SmallestR ==
    (pc # "isa" /\ MinEnvExists) =>
        /\ minEnviromentSize \in 3..(numberOfSites - 1)
        /\ Pow2(minEnviromentSize) >= 2 * m
        /\ \A q \in 3..(numberOfSites - 1) :
              Pow2(q) >= 2 * m => minEnviromentSize <= q

C7_Witness ==
    /\ pc = "done"
    /\ m = 16 /\ numberOfSites = 8
    /\ minEnviromentSize = 5

\* C8 (as stated): at each growth-loop head, after each growth step and after
\* each load into blkS in the finite phase, blkS.HAB, SzAB, SpAB and SmAB have
\* one common dimension, equal to the number of states retained.
C8_Original ==
    pc \in {"isa", "for"} =>
        /\ SzAB = blkS.HAB /\ SpAB = blkS.HAB /\ SmAB = blkS.HAB
        /\ blkS.HAB = statesToKeepIFA

\* C8 (amended): at each growth-loop head and after each growth step the four
\* operators share one dimension, and it is twice the number of states
\* retained (2*st = 2*statesToKeepIFA); after a load into blkS in the finite
\* phase they share the dimension 2m provided minEnviromentSize <= L/2.
C8_OperatorDims ==
    /\ pc = "isa" =>
          /\ SzAB = blkS.HAB /\ SpAB = blkS.HAB /\ SmAB = blkS.HAB
          /\ blkS.HAB = 2 * st
          /\ st = statesToKeepIFA
    /\ (pc = "for" /\ minEnviromentSize <= HalfSites) =>
          /\ SzAB = blkS.HAB /\ SpAB = blkS.HAB /\ SmAB = blkS.HAB
          /\ blkS.HAB = 2 * m

C8_Witness ==
    /\ pc = "for" /\ halfSweep = 2
    /\ m = 5 /\ numberOfSites = 8
    /\ blkS = [size |-> 4, HAB |-> 10]
    /\ SzAB = 10

\* C9: with numberOfHalfSweeps = 0 nothing is written to the store after the
\* infinite-system phase: the persisted blocks stay as that phase left them.
C9_ZeroSweepsNoWrite ==
    [][ (numberOfHalfSweeps = 0 /\ pc # "isa") => store' = store ]_vars

C9_Witness ==
    /\ pc = "done"
    /\ numberOfHalfSweeps = 0
    /\ numberOfSites = 8 /\ m = 4
    /\ DOMAIN store = 3..5

\* C10: when no r with 3 <= r < L has 2^r >= 2m, the finite phase prints no
\* line and writes no block, whatever numberOfHalfSweeps is, and the program
\* reaches its normal end.
C10_DegenerateSweep ==
    /\ [][ (~MinEnvExists /\ pc # "isa") => (store' = store /\ out' = out) ]_vars
    /\ (~MinEnvExists) ~> (pc = "done")

C10_Witness ==
    /\ pc = "done"
    /\ m = 17 /\ numberOfSites = 6 /\ numberOfHalfSweeps = 2
    /\ minEnviromentSize = 6
    /\ halfSweep = 2
    /\ Len(out) = 3

\* A growth step / a sweep step has just been taken.
IsGrowthStep == pc = "isa" /\ sitesInSystem' = sitesInSystem + 1
IsSweepStep == pc = "while" /\ pc' = "while"

\* C11: every finite-sweep step prints (sitesInSystem, L - sitesInSystem) on
\* an even half-sweep and (L - sitesInSystem, sitesInSystem) on an odd one, so
\* the two printed site counts sum to L.
C11_SweepReportOrder ==
    [][ IsSweepStep =>
          /\ Len(out') = Len(out) + 1
          /\ LET line == out'[Len(out')]
             IN  /\ line.kind = "energy"
                 /\ line.left + line.right = numberOfSites
                 /\ halfSweep % 2 = 0 =>
                       /\ line.left = sitesInSystem
                       /\ line.right = numberOfSites - sitesInSystem
                 /\ halfSweep % 2 = 1 =>
                       /\ line.left = numberOfSites - sitesInSystem
                       /\ line.right = sitesInSystem ]_vars

C11_Witness ==
    /\ pc = "while" /\ halfSweep = 1
    /\ numberOfSites = 10 /\ minEnviromentSize = 3
    /\ sitesInSystem = 4
    /\ out[Len(out)] = EnergyLine(7, 3)

\* C12: the program terminates: the growth loop finishes, then all
\* numberOfHalfSweeps half-sweeps finish, and once the growth loop has been
\* left no growth step follows (no sweep step precedes the last growth step).
C12_Terminates ==
    /\ <>(pc = "done")
    /\ [](pc = "done" => halfSweep = numberOfHalfSweeps)
    /\ [][ pc # "isa" => pc' # "isa" ]_vars
    /\ [][ IsGrowthStep =>
              \A k \in 1..Len(out) : out[k] = EnergyLine(k + 1, k + 1) ]_vars

C12_Witness ==
    /\ pc = "done"
    /\ numberOfHalfSweeps = 2 /\ halfSweep = 2
    /\ numberOfSites = 10 /\ m = 4
    /\ Len(out) = 5 + 3 + 5

\* C13: at every superblock assembly of the growth phase (loop head with the
\* guard true) the identity I2st has the same dimension as blkS.HAB.
C13_IdentityMatchesBlock ==
    (pc = "isa" /\ GrowthGuard(sitesInSystem, numberOfSites)) => I2st = blkS.HAB

\* C14: once truncflag has reached 3, I2st has dimension 2m and is not resized
\* again by any later growth or sweep step, and every later growth step
\* truncates a density matrix of dimension exactly 2m to at most m states.
C14_SteadyState ==
    /\ [](truncflag >= 3 => I2st = 2 * m)
    /\ [][ truncflag >= 3 => I2st' = I2st ]_vars
    /\ [][ (IsGrowthStep /\ truncflag >= 3) =>
              /\ OO'.cols = 2 * m
              /\ OO'.rows <= m ]_vars

C14_Witness ==
    /\ pc = "while" /\ halfSweep = 1
    /\ truncflag = 4
    /\ m = 6 /\ numberOfSites = 10
    /\ I2st = 12
    /\ OO = [rows |-> 6, cols |-> 12]

\* C15: a growth step taken while 2*st <= m keeps as many states as the
\* density matrix has rows (nothing is discarded) and doubles st; a growth
\* step taken while 2*st > m keeps strictly fewer states than that dimension.
C15_TruncateOrNot ==
    [][ IsGrowthStep =>
          /\ 2 * st <= m => (OO'.rows = OO'.cols /\ st' = 2 * st)
          /\ 2 * st > m => OO'.rows < OO'.cols ]_vars

C15_Witness ==
    /\ pc = "isa" /\ sitesInSystem = 5
    /\ m = 8
    /\ st = 8
    /\ OO = [rows |-> 8, cols |-> 16]

\* C16: truncflag never decreases; the first growth step with 2*st > m leaves
\* st = m, st stays m afterwards, and so 2*st <= m never holds again.
C16_PhaseMonotone ==
    /\ [][ truncflag' >= truncflag ]_vars
    /\ [][ (IsGrowthStep /\ 2 * st > m) => st' = m ]_vars
    /\ [](truncflag >= 1 => (st = m /\ 2 * st > m))

C16_Witness ==
    /\ pc = "isa" /\ sitesInSystem = 5
    /\ m = 5
    /\ truncflag = 4
    /\ st = 5

\* The growth loop has just been left: its guard is false and the finite
\* phase has not started.
GrowthLoopEnded == pc = "isa" /\ ~GrowthGuard(sitesInSystem, numberOfSites)

\* C17 (as stated): when the growth loop ends, blkS.size, the size of the last
\* block persisted by the infinite-system phase, equals L/2.
C17_Original ==
    GrowthLoopEnded => blkS.size = HalfSites

\* C17 (amended): when the growth loop ends, blkS.size equals L/2 + 1, and
\* that block is the last and largest one persisted by the growth phase.
C17_BlockSizeAtEnd ==
    GrowthLoopEnded =>
        /\ blkS.size = HalfSites + 1
        /\ sitesInSystem = blkS.size
        /\ Written(blkS.size) /\ store[blkS.size] = blkS
        /\ \A s \in DOMAIN store : s <= blkS.size

C17_Witness ==
    /\ GrowthLoopEnded
    /\ numberOfSites = 8
    /\ blkS.size = 5
    /\ DOMAIN store = 3..5

\* C18: in every sweep step that executes, the system block Hamiltonian, the
\* loaded environment Hamiltonian, SzAB/SpAB/SmAB and I2st all have dimension
\* 2m, and the density matrix of dimension 2m is truncated to exactly m states.
C18_SweepDims ==
    [][ IsSweepStep =>
          /\ blkS.HAB = 2 * m
          /\ blkE'.HAB = 2 * m
          /\ SzAB = 2 * m /\ SpAB = 2 * m /\ SmAB = 2 * m
          /\ I2st = 2 * m
          /\ OO' = [rows |-> m, cols |-> 2 * m]
          /\ truncflag >= 3
          /\ minEnviromentSize <= HalfSites ]_vars

C18_Witness ==
    /\ pc = "while" /\ halfSweep = 1
    /\ m = 7 /\ numberOfSites = 10
    /\ sitesInSystem = 6
    /\ blkE = [size |-> 5, HAB |-> 14]
    /\ blkS = [size |-> 6, HAB |-> 14]
    /\ OO = [rows |-> 7, cols |-> 14]

\* Lines of one complete half-sweep hs whose system sizes run first..last.
RECURSIVE HalfSweepLines(_, _, _)
HalfSweepLines(hs, first, last) ==
    IF first > last THEN << >>
    ELSE << IF hs % 2 = 0
            THEN [kind |-> "energy", left |-> first, right |-> numberOfSites - first]
            ELSE [kind |-> "energy", left |-> numberOfSites - first, right |-> first] >>
         \o HalfSweepLines(hs, first + 1, last)

\* Lines of the first h complete half-sweeps: half-sweep 0 has system sizes
\* L/2 .. L - minEnviromentSize, every later one minEnviromentSize .. L -
\* minEnviromentSize.
RECURSIVE ExpectedSweepLines(_)
ExpectedSweepLines(h) ==
    IF h = 0 THEN << >>
    ELSE ExpectedSweepLines(h - 1) \o
         HalfSweepLines(h - 1,
                        IF h = 1 THEN HalfSites ELSE minEnviromentSize,
                        numberOfSites - minEnviromentSize)

\* C19: when minEnviromentSize <= L/2, half-sweep 0 makes L/2 -
\* minEnviromentSize + 1 steps with system sizes L/2..L-minEnviromentSize and
\* each later half-sweep L - 2*minEnviromentSize + 1 steps with system sizes
\* minEnviromentSize..L-minEnviromentSize; in every step the environment size
\* lies between minEnviromentSize and L - minEnviromentSize.
C19_HalfSweepSteps ==
    (pc \in {"for", "while", "done"} /\ minEnviromentSize <= HalfSites) =>
        /\ pc \in {"for", "done"} =>
              /\ SubSeq(out, HalfSites + 1, Len(out)) = ExpectedSweepLines(halfSweep)
              /\ Len(out) - HalfSites =
                    IF halfSweep = 0 THEN 0
                    ELSE (HalfSites - minEnviromentSize + 1)
                         + (halfSweep - 1) * (numberOfSites - 2 * minEnviromentSize + 1)
        /\ \A k \in (HalfSites + 1)..Len(out) :
              /\ out[k].left \in minEnviromentSize..(numberOfSites - minEnviromentSize)
              /\ out[k].right \in minEnviromentSize..(numberOfSites - minEnviromentSize)

C19_Witness ==
    /\ pc = "done"
    /\ numberOfHalfSweeps = 2
    /\ numberOfSites = 10 /\ m = 6
    /\ minEnviromentSize = 4
    /\ Len(out) = 5 + 2 + 3

\* C20: at the resize of blkS.HAB to 2*st in every growth step, st equals
\* statesToKeepIFA, so the new dimension of blkS.HAB is twice the first index
\* of TSR, also for m that is not a power of two.
C20_ResizeMatchesTSR ==
    [][ IsGrowthStep =>
          /\ st' = statesToKeepIFA'
          /\ TSR' = statesToKeepIFA'
          /\ blkS'.HAB = 2 * TSR' ]_vars

C20_Witness ==
    /\ pc = "isa" /\ sitesInSystem = 4
    /\ m = 6
    /\ st = 6 /\ TSR = 6
    /\ blkS.HAB = 12

====
